---- MODULE Spec2Model ----
(***************************************************************************)
(* Model of compare_payments.py: reconciliation of per-company payment     *)
(* totals from two spreadsheet exports.                                    *)
(*                                                                         *)
(* Text is a sequence of one-character strings.  An optional value         *)
(* (Python None / pandas NaN versus a value) is a sequence of length 0 or  *)
(* 1: None == <<>>, Some(x) == <<x>>.  A spreadsheet cell is an optional   *)
(* text: the text is what str(cell) gives.  A Decimal is the integer       *)
(* number of 10^-Scale units it denotes, so Decimal equality and           *)
(* arithmetic are exact and numeric ("1.0" equals "1.00").                 *)
(***************************************************************************)
EXTENDS Integers, Sequences, FiniteSets, TLC

VARIABLES pc, value, ret, file1, file2, raw1, raw2, left, right, detail, summary, stats

vars == <<pc, value, ret, file1, file2, raw1, raw2, left, right, detail, summary, stats>>

\* Longest amount text drawn for parse_amount.
MaxAmtLen == 4
\* Longest name text drawn for parse_id_from_file1.
MaxIdLen == 6
\* Most raw rows in one source table.
MaxRows == 2

\* Fraction digits a Decimal of the model can hold: a text of n characters
\* has at most n - 1 of them.
Scale == MaxAmtLen - 1

None == <<>>
Some(x) == <<x>>

Tab == "\t"
Digits == {"0", "1", "2", "3", "4", "5", "6", "7", "8", "9"}

\* The characters str.strip() removes, among those the model draws.
IsSpace(c) == c \in {" ", Tab}

\* Unicode code points, the order Python compares strings by.
Ord(c) ==
    CASE c = Tab -> 9
      [] c = " " -> 32
      [] c = "," -> 44
      [] c = "-" -> 45
      [] c = "." -> 46
      [] c = "0" -> 48
      [] c = "1" -> 49
      [] c = "2" -> 50
      [] c = "3" -> 51
      [] c = "4" -> 52
      [] c = "5" -> 53
      [] c = "6" -> 54
      [] c = "7" -> 55
      [] c = "8" -> 56
      [] c = "9" -> 57
      [] c = "A" -> 65
      [] c = "C" -> 67
      [] c = "H" -> 72
      [] c = "I" -> 73
      [] c = "M" -> 77
      [] c = "S" -> 83
      [] c = "T" -> 84
      [] c = "[" -> 91
      [] c = "]" -> 93
      [] c = "_" -> 95
      [] c = "a" -> 97
      [] c = "b" -> 98
      [] c = "c" -> 99
      [] c = "d" -> 100
      [] c = "e" -> 101
      [] c = "f" -> 102
      [] c = "i" -> 105
      [] c = "l" -> 108
      [] c = "n" -> 110
      [] c = "o" -> 111
      [] c = "r" -> 114
      [] c = "s" -> 115
      [] c = "x" -> 120
      [] c = "y" -> 121

DigitVal(c) == Ord(c) - Ord("0")

\* s < t for Python strings.
RECURSIVE StrLess(_, _)
StrLess(s, t) ==
    IF t = <<>> THEN FALSE
    ELSE IF s = <<>> THEN TRUE
    ELSE IF Head(s) = Head(t) THEN StrLess(Tail(s), Tail(t))
    ELSE Ord(Head(s)) < Ord(Head(t))

RECURSIVE LStrip(_)
LStrip(t) == IF t # <<>> /\ IsSpace(Head(t)) THEN LStrip(Tail(t)) ELSE t

RECURSIVE RStrip(_)
RStrip(t) ==
    IF t # <<>> /\ IsSpace(t[Len(t)]) THEN RStrip(SubSeq(t, 1, Len(t) - 1)) ELSE t

\* str.strip()
Strip(t) == RStrip(LStrip(t))

\* str.replace(old, new) for a one-character old and a text new.
RECURSIVE Replace(_, _, _)
Replace(t, old, new) ==
    IF t = <<>> THEN <<>>
    ELSE (IF Head(t) = old THEN new ELSE <<Head(t)>>) \o Replace(Tail(t), old, new)

\* str.split(sep)[0]: the text before the first sep, the whole text without one.
RECURSIVE SplitFirst(_, _)
SplitFirst(t, sep) ==
    IF t = <<>> \/ Head(t) = sep THEN <<>>
    ELSE <<Head(t)>> \o SplitFirst(Tail(t), sep)

RECURSIVE ToInt(_)
ToInt(ds) == IF ds = <<>> THEN 0 ELSE 10 * ToInt(SubSeq(ds, 1, Len(ds) - 1)) + DigitVal(ds[Len(ds)])

RECURSIVE Pow10(_)
Pow10(n) == IF n = 0 THEN 1 ELSE 10 * Pow10(n - 1)

\* Decimal(text): None for InvalidOperation.  The constructor strips
\* surrounding whitespace itself and reads [sign] digits [. digits] with at
\* least one digit; any other character of the model's alphabets is a
\* syntax error.
DecimalOf(text) ==
    LET s == Strip(text)
        signed == s # <<>> /\ Head(s) \in {"-", "+"}
        body == IF signed THEN Tail(s) ELSE s
        dots == {i \in 1..Len(body) : body[i] = "."}
        digs == Replace(body, ".", <<>>)
        ok == /\ \A i \in 1..Len(body) : body[i] \in Digits \cup {"."}
              /\ Cardinality(dots) <= 1
              /\ digs # <<>>
        nfrac == IF dots = {} THEN 0 ELSE Len(body) - (CHOOSE i \in dots : TRUE)
        mag == ToInt(digs) * Pow10(Scale - nfrac)
    IN  IF ~ok THEN None
        ELSE Some(IF signed /\ Head(s) = "-" THEN 0 - mag ELSE mag)

\* parse_amount(value), value an optional text.
parse_amount(v) ==
    IF v = None THEN None
    ELSE LET text == Replace(Strip(v[1]), " ", <<>>)
         IN  IF text = <<>> THEN None
             ELSE DecimalOf(Replace(text, ",", <<".">>))

\* ID_BRACKET_RE with the rightmost match taken instead of the leftmost.
ID_BRACKET_RE_Last(text) ==
    LET MatchEnd(i) ==
            {j \in (i + 2)..Len(text) :
                /\ text[j] = "]"
                /\ \A k \in (i + 1)..(j - 1) : text[k] \in Digits}
        starts == {i \in 1..Len(text) : text[i] = "[" /\ MatchEnd(i) # {}}
    IN  IF starts = {} THEN <<>>
        ELSE LET i == CHOOSE a \in starts : \A b \in starts : a >= b
             IN  <<i, CHOOSE j \in MatchEnd(i) : TRUE>>

\* ID_BRACKET_RE.search(text): the leftmost position where "[", one or more
\* digits and "]" follow each other, as <<start, end>>; <<>> without a match.
ID_BRACKET_RE(text) ==
    LET MatchEnd(i) ==
            {j \in (i + 2)..Len(text) :
                /\ text[j] = "]"
                /\ \A k \in (i + 1)..(j - 1) : text[k] \in Digits}
        starts == {i \in 1..Len(text) : text[i] = "[" /\ MatchEnd(i) # {}}
    IN  IF starts = {} THEN <<>>
        ELSE LET i == CHOOSE a \in starts : \A b \in starts : a <= b
             IN  <<i, CHOOSE j \in MatchEnd(i) : TRUE>>

\* parse_id_from_file1(name_with_id), name_with_id an optional text.
parse_id_from_file1(name_with_id) ==
    IF name_with_id = None THEN None
    ELSE LET match == ID_BRACKET_RE(name_with_id[1])
         IN  IF match = <<>> THEN None
             ELSE Some(SubSeq(name_with_id[1], match[1] + 1, match[2] - 1))

\* parse_id_from_file2(raw_id), raw_id an optional text.
parse_id_from_file2(raw_id) ==
    IF raw_id = None THEN None
    ELSE LET text == Strip(raw_id[1])
         IN  IF text = <<>> THEN None
             ELSE Some(Strip(SplitFirst(text, ",")))

\* Series.where(series.notna(), other): the primary cell unless it is
\* missing, else the fallback cell.
where_notna(primary, fallback) == IF primary # None THEN primary ELSE fallback

\* astype(str) of one cell: a missing cell (NaN) becomes the text "nan"
\* (object columns, pandas before 3.0), so no stringified name is missing.
astype_str(cell) == IF cell = None THEN <<"n", "a", "n">> ELSE cell[1]

\* The identifiers in ascending string order, as groupby and merge sort them.
RECURSIVE SortedKeys(_)
SortedKeys(S) ==
    IF S = {} THEN <<>>
    ELSE LET m == CHOOSE a \in S : \A b \in S \ {a} : StrLess(a, b)
         IN  <<m>> \o SortedKeys(S \ {m})

\* sum((v for v in x if v is not None), Decimal("0")) over a group's rows.
RECURSIVE SumPresent(_)
SumPresent(grp) ==
    IF grp = <<>> THEN 0
    ELSE (IF Head(grp).amount = None THEN 0 ELSE Head(grp).amount[1]) + SumPresent(Tail(grp))

\* sum with the first row's amount taken for the whole group.
SumFirstOnly(grp) == IF Head(grp).amount = None THEN 0 ELSE Head(grp).amount[1]

\* groupby_agg with the amount of a group's first row as its total.
groupby_agg_first_amount(out) ==
    LET keys == SortedKeys({out[i].company_id : i \in DOMAIN out})
        Group(k) == SelectSeq(out, LAMBDA r : r.company_id = k)
    IN  [n \in 1..Len(keys) |->
            [company_id |-> keys[n],
             amount |-> SumFirstOnly(Group(keys[n])),
             company_name |-> Group(keys[n])[1].company_name]]

\* groupby("company_id", as_index=False).agg(amount=sum of the present
\* amounts, company_name="first"): one row per key, keys ascending.  Every
\* name is a text after astype(str), so "first" is the first row's name.
groupby_agg(out) ==
    LET keys == SortedKeys({out[i].company_id : i \in DOMAIN out})
        Group(k) == SelectSeq(out, LAMBDA r : r.company_id = k)
    IN  [n \in 1..Len(keys) |->
            [company_id |-> keys[n],
             amount |-> SumPresent(Group(keys[n])),
             company_name |-> Group(keys[n])[1].company_name]]

\* The rows of prepare_file1 before grouping: company_raw is column D, or
\* column C when D is missing; rows without an identifier are dropped.
File1Rows(rows) ==
    LET Parsed(r) ==
            LET company_raw == where_notna(r.name_d, r.name_c)
            IN  [company_id |-> parse_id_from_file1(company_raw),
                 company_raw |-> company_raw,
                 amount |-> parse_amount(r.amount)]
        df == [i \in DOMAIN rows |-> Parsed(rows[i])]
        out == SelectSeq(df, LAMBDA r : r.company_id # None)
    IN  [i \in DOMAIN out |->
            [company_id |-> Strip(out[i].company_id[1]),
             company_name |-> Strip(astype_str(out[i].company_raw)),
             amount |-> out[i].amount]]

prepare_file1(rows) == groupby_agg(File1Rows(rows))

\* The rows of prepare_file2 before grouping: the identifier comes from
\* column A, the name from column C, or column B when C is missing.
File2Rows(rows) ==
    LET Parsed(r) ==
            [company_id |-> parse_id_from_file2(r.raw_id),
             company_raw |-> where_notna(r.name_c, r.name_b),
             amount |-> parse_amount(r.amount)]
        df == [i \in DOMAIN rows |-> Parsed(rows[i])]
        out == SelectSeq(df, LAMBDA r : r.company_id # None)
    IN  [i \in DOMAIN out |->
            [company_id |-> Strip(out[i].company_id[1]),
             company_name |-> Strip(astype_str(out[i].company_raw)),
             amount |-> out[i].amount]]

prepare_file2(rows) == groupby_agg(File2Rows(rows))

Ids(table) == {table[i].company_id : i \in DOMAIN table}

\* The row of an aggregated table with the given identifier.
RowOf(table, id) == table[CHOOSE i \in DOMAIN table : table[i].company_id = id]

\* merge with how="inner": the identifiers of both tables only.
merge_keys_inner(l, r) == Ids(l) \cap Ids(r)

\* The keys of left.merge(right, on="company_id", how="outer").
merge_keys(l, r) == Ids(l) \cup Ids(r)

\* left.merge(right, on="company_id", how="outer"): one row per key, the
\* columns of a side the key is missing from being NaN.
merge_outer(l, r) ==
    LET keys == SortedKeys(merge_keys(l, r))
    IN  [n \in 1..Len(keys) |->
            LET id == keys[n]
            IN  [company_id |-> id,
                 amount_1 |-> IF id \in Ids(l) THEN Some(RowOf(l, id).amount) ELSE None,
                 company_name_1 |-> IF id \in Ids(l) THEN Some(RowOf(l, id).company_name) ELSE None,
                 amount_2 |-> IF id \in Ids(r) THEN Some(RowOf(r, id).amount) ELSE None,
                 company_name_2 |-> IF id \in Ids(r) THEN Some(RowOf(r, id).company_name) ELSE None]]

\* Series.fillna(Decimal("0")) on one cell.
fillna(cell) == IF cell = None THEN 0 ELSE cell[1]

\* The delta with the operands exchanged.
delta_swapped(amount_1, amount_2) == amount_2 - amount_1

\* merged["amount_1"] - merged["amount_2"] on one row.
delta(amount_1, amount_2) == amount_1 - amount_2

MATCH == <<"M", "A", "T", "C", "H">>
MISMATCH == <<"M", "I", "S", "M", "A", "T", "C", "H">>
\* f"only_file_{name}"
only_file(name) == <<"o", "n", "l", "y", "_", "f", "i", "l", "e", "_">> \o name

\* get_status with MATCH given to every row both files name.
get_status_no_delta(row, file1_name, file2_name) ==
    LET has_1 == row.company_name_1 # None
        has_2 == row.company_name_2 # None
    IN  IF has_1 /\ has_2 THEN MATCH
        ELSE IF has_1 THEN only_file(file1_name)
        ELSE only_file(file2_name)

\* get_status(row) inside compare.
get_status(row, file1_name, file2_name) ==
    LET has_1 == row.company_name_1 # None
        has_2 == row.company_name_2 # None
    IN  IF has_1 /\ has_2 THEN (IF row.delta = 0 THEN MATCH ELSE MISMATCH)
        ELSE IF has_1 THEN only_file(file1_name)
        ELSE only_file(file2_name)

\* Path.name: the last component of a path.
PathName(path) == path[Len(path)]

\* The detail table of compare: merge, fillna, delta, status, sort by
\* company_id.
Detail(l, r, file1_name, file2_name) ==
    LET merged == merge_outer(l, r)
        Filled(m) ==
            [company_id |-> m.company_id,
             company_name_1 |-> m.company_name_1,
             company_name_2 |-> m.company_name_2,
             amount_1 |-> fillna(m.amount_1),
             amount_2 |-> fillna(m.amount_2)]
        WithDelta(m) ==
            [company_id |-> m.company_id,
             company_name_1 |-> m.company_name_1,
             company_name_2 |-> m.company_name_2,
             amount_1 |-> m.amount_1,
             amount_2 |-> m.amount_2,
             delta |-> delta(m.amount_1, m.amount_2)]
        WithStatus(m) ==
            [company_id |-> m.company_id,
             company_name_1 |-> m.company_name_1,
             company_name_2 |-> m.company_name_2,
             amount_1 |-> m.amount_1,
             amount_2 |-> m.amount_2,
             delta |-> m.delta,
             status |-> get_status(m, file1_name, file2_name)]
        rows == [i \in DOMAIN merged |-> WithStatus(WithDelta(Filled(merged[i])))]
    IN  SortSeq(rows, LAMBDA a, b : StrLess(a.company_id, b.company_id))

RECURSIVE SumField(_, _)
SumField(rows, f) == IF rows = <<>> THEN 0 ELSE Head(rows)[f] + SumField(Tail(rows), f)

\* Summary with the rows of the first status only.
SummaryFirstStatus(det) ==
    LET keys == SortedKeys({det[i].status : i \in DOMAIN det})
        Group(k) == SelectSeq(det, LAMBDA r : r.status = k)
    IN  [n \in 1..(IF keys = <<>> THEN 0 ELSE 1) |->
            [status |-> keys[n],
             rows |-> Len(Group(keys[n])),
             total_amount_1 |-> SumField(Group(keys[n]), "amount_1"),
             total_amount_2 |-> SumField(Group(keys[n]), "amount_2"),
             total_delta |-> SumField(Group(keys[n]), "delta")]]

\* The summary table of compare: detail grouped by status, the count and
\* the three sums per group, sorted by status.
Summary(det) ==
    LET keys == SortedKeys({det[i].status : i \in DOMAIN det})
        Group(k) == SelectSeq(det, LAMBDA r : r.status = k)
        agg == [n \in 1..Len(keys) |->
                   [status |-> keys[n],
                    rows |-> Len(Group(keys[n])),
                    total_amount_1 |-> SumField(Group(keys[n]), "amount_1"),
                    total_amount_2 |-> SumField(Group(keys[n]), "amount_2"),
                    total_delta |-> SumField(Group(keys[n]), "delta")]]
    IN  SortSeq(agg, LAMBDA a, b : StrLess(a.status, b.status))

\* int((detail["status"] == label).sum())
CountStatus(det, label) == Len(SelectSeq(det, LAMBDA r : r.status = label))

\* All texts over an alphabet of at most n characters.
Texts(alphabet, n) == UNION {[1..k -> alphabet] : k \in 0..n}

AmountAlphabet == {"1", "5", " ", Tab, ",", ".", "-"}
IdAlphabet == {"[", "]", "1", "2", "x"}

AmountCells == {None} \cup {Some(t) : t \in Texts(AmountAlphabet, MaxAmtLen)}
NameCells == {None} \cup {Some(t) : t \in Texts(IdAlphabet, MaxIdLen)}

\* The pipeline's variables, idle while a parser is exercised alone.
PipelineIdle ==
    /\ file1 = <<>> /\ file2 = <<>>
    /\ raw1 = <<>> /\ raw2 = <<>>
    /\ left = <<>> /\ right = <<>>
    /\ detail = <<>> /\ summary = <<>> /\ stats = <<>>

PipelineVars == <<file1, file2, raw1, raw2, left, right, detail, summary, stats>>

InitAmount ==
    /\ pc = "call"
    /\ value \in AmountCells
    /\ ret = None
    /\ PipelineIdle

ParseAmount ==
    /\ pc = "call"
    /\ ret' = parse_amount(value)
    /\ pc' = "returned"
    /\ UNCHANGED <<value, PipelineVars>>

SpecAmount == InitAmount /\ [][ParseAmount]_vars

InitId1 ==
    /\ pc = "call"
    /\ value \in NameCells
    /\ ret = None
    /\ PipelineIdle

ParseIdFromFile1 ==
    /\ pc = "call"
    /\ ret' = parse_id_from_file1(value)
    /\ pc' = "returned"
    /\ UNCHANGED <<value, PipelineVars>>

SpecId1 == InitId1 /\ [][ParseIdFromFile1]_vars

(***************************************************************************)
(* The pipeline: run_compare over two raw tables.                          *)
(***************************************************************************)

T_100_00 == <<"1", "0", "0", ".", "0", "0">>
T_99_99 == <<"9", "9", ",", "9", "9">>
T_50_00 == <<"5", "0", ".", "0", "0">>

\* Raw rows of file 1 (columns C, D, AF).
Rows1 ==
    {[name_c |-> None, name_d |-> Some(<<"d", "[", "7", "]">>), amount |-> Some(T_100_00)],
     [name_c |-> Some(<<"c", "[", "7", "]">>), name_d |-> None, amount |-> Some(T_99_99)],
     [name_c |-> Some(<<"c", "[", "9", "]">>), name_d |-> Some(<<"d">>), amount |-> Some(T_50_00)],
     [name_c |-> None, name_d |-> Some(<<"x", "[", "9", "]">>), amount |-> Some(T_50_00)],
     [name_c |-> None, name_d |-> None, amount |-> None]}

\* Raw rows of file 2 (columns A, B, C, F).
Rows2 ==
    {[raw_id |-> Some(<<"7", ",", "0", "0", "0">>), name_b |-> None,
      name_c |-> Some(<<"c">>), amount |-> Some(T_100_00)],
     [raw_id |-> Some(<<"7", ",", "0", "0", "0">>), name_b |-> None,
      name_c |-> None, amount |-> Some(T_99_99)],
     [raw_id |-> Some(<<" ", "9">>), name_b |-> Some(<<"b">>),
      name_c |-> None, amount |-> None],
     [raw_id |-> Some(<<",", "0", "0", "0">>), name_b |-> None,
      name_c |-> Some(<<"c">>), amount |-> Some(T_50_00)],
     [raw_id |-> None, name_b |-> None,
      name_c |-> Some(<<"c">>), amount |-> Some(T_50_00)]}

Tables(rows) == UNION {[1..k -> rows] : k \in 0..MaxRows}

\* The pairs of input paths: two names, one name in two directories, one file twice.
PathPairs ==
    {<<<<<<"a">>, <<"r">>>>, <<<<"b">>, <<"s">>>>>>,
     <<<<<<"a">>, <<"r">>>>, <<<<"b">>, <<"r">>>>>>,
     <<<<<<"a">>, <<"r">>>>, <<<<"a">>, <<"r">>>>>>}

Init ==
    /\ pc = "start"
    /\ value = None /\ ret = None
    /\ \E p \in PathPairs : file1 = p[1] /\ file2 = p[2]
    /\ raw1 \in Tables(Rows1)
    /\ raw2 \in Tables(Rows2)
    /\ left = <<>> /\ right = <<>>
    /\ detail = <<>> /\ summary = <<>> /\ stats = <<>>

\* compare, line 124
PrepareFile1 ==
    /\ pc = "start"
    /\ left' = prepare_file1(raw1)
    /\ pc' = "file1"
    /\ UNCHANGED <<value, ret, file1, file2, raw1, raw2, right, detail, summary, stats>>

\* compare, line 125
PrepareFile2 ==
    /\ pc = "file1"
    /\ right' = prepare_file2(raw2)
    /\ pc' = "file2"
    /\ UNCHANGED <<value, ret, file1, file2, raw1, raw2, left, detail, summary, stats>>

\* compare, lines 126 to 179
Compare ==
    /\ pc = "file2"
    /\ detail' = Detail(left, right, PathName(file1), PathName(file2))
    /\ summary' = Summary(detail')
    /\ pc' = "compared"
    /\ UNCHANGED <<value, ret, file1, file2, raw1, raw2, left, right, stats>>

\* run_compare, lines 277 to 288
RunCompare ==
    /\ pc = "compared"
    /\ stats' = [rows |-> Len(detail),
                 mismatches |-> CountStatus(detail, MISMATCH),
                 only1 |-> CountStatus(detail, only_file(PathName(file1))),
                 only2 |-> CountStatus(detail, only_file(PathName(file2)))]
    /\ pc' = "done"
    /\ UNCHANGED <<value, ret, file1, file2, raw1, raw2, left, right, detail, summary>>

Next == PrepareFile1 \/ PrepareFile2 \/ Compare \/ RunCompare

Spec == Init /\ [][Next]_vars

(***************************************************************************)
(* The aggregated tables                                                   *)
(***************************************************************************)

Prepared == pc \in {"file2", "compared", "done"}
Compared == pc \in {"compared", "done"}

\* The identifier, raw name and amount of one raw row, per source.
RawId1(r) == parse_id_from_file1(where_notna(r.name_d, r.name_c))
RawId2(r) == parse_id_from_file2(r.raw_id)
RawName1(r) == where_notna(r.name_d, r.name_c)
RawName2(r) == where_notna(r.name_c, r.name_b)

\* The raw rows (by position) whose trimmed identifier is id.
RowsOfId1(id) == {i \in DOMAIN raw1 : RawId1(raw1[i]) # None /\ Strip(RawId1(raw1[i])[1]) = id}
RowsOfId2(id) == {i \in DOMAIN raw2 : RawId2(raw2[i]) # None /\ Strip(RawId2(raw2[i])[1]) = id}

\* The sum of the parsed amounts of the raw rows at the positions S, an
\* absent amount counting as zero.
RECURSIVE AmountSum(_, _)
AmountSum(raw, S) ==
    IF S = {} THEN 0
    ELSE LET i == CHOOSE x \in S : TRUE
             a == parse_amount(raw[i].amount)
         IN  (IF a = None THEN 0 ELSE a[1]) + AmountSum(raw, S \ {i})

NoDuplicateIds(table) ==
    \A i, j \in DOMAIN table : table[i].company_id = table[j].company_id => i = j

\* C4: each aggregated table holds exactly one row per distinct trimmed
\* identifier parsed from the raw rows, rows without an identifier add no
\* row and no amount, and each total is the exact sum of the parsed amounts
\* of the identifier's rows with absent amounts as zero.
C4_OneRowPerIdExactSum ==
    Prepared =>
        /\ NoDuplicateIds(left) /\ NoDuplicateIds(right)
        /\ Ids(left) = {Strip(RawId1(raw1[i])[1]) : i \in {k \in DOMAIN raw1 : RawId1(raw1[k]) # None}}
        /\ Ids(right) = {Strip(RawId2(raw2[i])[1]) : i \in {k \in DOMAIN raw2 : RawId2(raw2[k]) # None}}
        /\ \A i \in DOMAIN left : left[i].amount = AmountSum(raw1, RowsOfId1(left[i].company_id))
        /\ \A i \in DOMAIN right : right[i].amount = AmountSum(raw2, RowsOfId2(right[i].company_id))

\* Two identical rows of one identifier gave one row with double the
\* amount, beside a row without identifier that was dropped.
C4_Witness ==
    /\ Prepared
    /\ Len(raw2) = 2 /\ raw2[1] = raw2[2]
    /\ parse_amount(raw2[1].amount) # None
    /\ Len(right) = 1
    /\ right[1].amount = 2 * parse_amount(raw2[1].amount)[1]
    /\ right[1].amount # 0
    /\ \E i \in DOMAIN raw1 : RawId1(raw1[i]) = None
    /\ Len(left) = 1

\* The first non-absent raw name among the rows at the positions S.
FirstName1(S) ==
    LET named == {i \in S : RawName1(raw1[i]) # None}
    IN  RawName1(raw1[CHOOSE i \in named : \A j \in named : i <= j])[1]
FirstName2(S) ==
    LET named == {i \in S : RawName2(raw2[i]) # None}
    IN  RawName2(raw2[CHOOSE i \in named : \A j \in named : i <= j])[1]

\* C7: the display name of an identifier is the first non-absent raw name
\* (primary column, else fallback column) of its rows in scan order, also
\* when the identifier's first row has no name and a later row has one.
C7_FirstNonAbsentName ==
    Prepared =>
        /\ \A i \in DOMAIN left :
              LET S == RowsOfId1(left[i].company_id)
              IN  (\E k \in S : RawName1(raw1[k]) # None) =>
                      left[i].company_name = Strip(FirstName1(S))
        /\ \A i \in DOMAIN right :
              LET S == RowsOfId2(right[i].company_id)
              IN  (\E k \in S : RawName2(raw2[k]) # None) =>
                      right[i].company_name = Strip(FirstName2(S))

\* C10: every identifier of the aggregated table of file 2, and so of the
\* detail table, is a non-empty text without leading or trailing
\* whitespace; a row with nothing before the first comma of its code is
\* dropped.
C10_NoEmptyKey ==
    /\ Prepared =>
          \A i \in DOMAIN right :
              /\ right[i].company_id # <<>>
              /\ Strip(right[i].company_id) = right[i].company_id
    /\ Compared =>
          \A i \in DOMAIN detail :
              /\ detail[i].company_id # <<>>
              /\ Strip(detail[i].company_id) = detail[i].company_id

(***************************************************************************)
(* The detail and summary tables                                           *)
(***************************************************************************)

DetailRowsOf(id) == {i \in DOMAIN detail : detail[i].company_id = id}

\* C1: the detail table holds exactly one row for every identifier of the
\* aggregated table of file 1 or of file 2, and no row of another
\* identifier.
C1_JoinComplete ==
    Compared =>
        /\ \A id \in Ids(left) \cup Ids(right) : Cardinality(DetailRowsOf(id)) = 1
        /\ \A i \in DOMAIN detail : detail[i].company_id \in Ids(left) \cup Ids(right)

\* An identifier of both files is on one row, beside an identifier of one file.
C1_Witness ==
    /\ Compared
    /\ \E id \in Ids(left) \cap Ids(right) : Cardinality(DetailRowsOf(id)) = 1
    /\ Ids(left) \ Ids(right) # {}
    /\ Ids(right) \ Ids(left) # {}

A_100_00 == DecimalOf(T_100_00)[1]
A_99_99 == DecimalOf(Replace(T_99_99, ",", <<".">>))[1]
A_50_00 == DecimalOf(T_50_00)[1]
A_0_01 == Pow10(Scale - 2)

\* C2: a name is present on a side exactly when the identifier is in that
\* side's aggregated table, and the status is MATCH for both names and a
\* zero delta, MISMATCH for both names and a non-zero delta, only_file_<file
\* 1> for the name of file 1 alone and only_file_<file 2> for the name of
\* file 2 alone; totals 100.00 and 99.99 give MISMATCH with delta 0.01.
C2_Status ==
    Compared =>
        \A i \in DOMAIN detail :
            LET row == detail[i]
                in1 == row.company_id \in Ids(left)
                in2 == row.company_id \in Ids(right)
            IN  /\ (row.company_name_1 # None) <=> in1
                /\ (row.company_name_2 # None) <=> in2
                /\ in1 /\ in2 /\ row.delta = 0 => row.status = MATCH
                /\ in1 /\ in2 /\ row.delta # 0 => row.status = MISMATCH
                /\ in1 /\ ~in2 => row.status = only_file(PathName(file1))
                /\ ~in1 /\ in2 => row.status = only_file(PathName(file2))
                /\ in1 /\ in2 /\ row.amount_1 = A_100_00 /\ row.amount_2 = A_99_99 =>
                       row.status = MISMATCH /\ row.delta = A_0_01

\* Totals 100.00 and 99.99 of one identifier were classified, beside a
\* row of file 2 whose raw name is missing in both columns.
C2_Witness ==
    /\ Compared
    /\ \E i \in DOMAIN detail :
          /\ detail[i].amount_1 = A_100_00
          /\ detail[i].amount_2 = A_99_99
          /\ detail[i].status = MISMATCH
          /\ \A k \in RowsOfId2(detail[i].company_id) : RawName2(raw2[k]) = None

\* C3: delta is amount_1 minus amount_2, the amount of a side the
\* identifier is missing from is zero and its name stays absent; an
\* identifier of file 1 alone with total 50.00 has amount_2 0, delta 50.00 and
\* status only_file_<file 1>; an empty file 1 with one identifier in file 2
\* gives one detail row with status only_file_<file 2> and a one-row summary
\* with count 1.
C3_DeltaAndDefaults ==
    Compared =>
        /\ \A i \in DOMAIN detail :
              LET row == detail[i]
                  in1 == row.company_id \in Ids(left)
                  in2 == row.company_id \in Ids(right)
              IN  /\ row.delta = row.amount_1 - row.amount_2
                  /\ in1 => row.amount_1 = RowOf(left, row.company_id).amount
                  /\ in2 => row.amount_2 = RowOf(right, row.company_id).amount
                  /\ ~in1 => row.amount_1 = 0 /\ row.company_name_1 = None
                  /\ ~in2 => row.amount_2 = 0 /\ row.company_name_2 = None
                  /\ in1 /\ ~in2 /\ RowOf(left, row.company_id).amount = A_50_00 =>
                         /\ row.amount_2 = 0
                         /\ row.delta = A_50_00
                         /\ row.status = only_file(PathName(file1))
        /\ left = <<>> /\ Len(right) = 1 =>
              /\ Len(detail) = 1
              /\ detail[1].status = only_file(PathName(file2))
              /\ Len(summary) = 1
              /\ summary[1].rows = 1

\* An identifier of file 1 alone with total 50.00 was reconciled.
C3_Witness ==
    /\ Compared
    /\ \E i \in DOMAIN detail :
          /\ detail[i].company_id \in Ids(left) \ Ids(right)
          /\ detail[i].amount_1 = A_50_00
          /\ detail[i].delta = A_50_00
          /\ detail[i].company_name_2 = None

RowsOfStatus(st) == {i \in DOMAIN detail : detail[i].status = st}

RECURSIVE FieldSum(_, _)
FieldSum(S, f) ==
    IF S = {} THEN 0
    ELSE LET i == CHOOSE x \in S : TRUE IN detail[i][f] + FieldSum(S \ {i}, f)

RECURSIVE CountSum(_)
CountSum(rows) == IF rows = <<>> THEN 0 ELSE Head(rows).rows + CountSum(Tail(rows))

\* C5: the summary holds exactly one row per distinct status of the detail
\* table, ascending by status; a row's count and three sums are those of
\* the detail rows of its status; the counts add up to the number of detail
\* rows.
C5_Summary ==
    Compared =>
        /\ {summary[i].status : i \in DOMAIN summary} = {detail[i].status : i \in DOMAIN detail}
        /\ \A i \in 1..(Len(summary) - 1) : StrLess(summary[i].status, summary[i + 1].status)
        /\ \A i \in DOMAIN summary :
              LET S == RowsOfStatus(summary[i].status)
              IN  /\ summary[i].rows = Cardinality(S)
                  /\ summary[i].total_amount_1 = FieldSum(S, "amount_1")
                  /\ summary[i].total_amount_2 = FieldSum(S, "amount_2")
                  /\ summary[i].total_delta = FieldSum(S, "delta")
        /\ CountSum(summary) = Len(detail)

\* A summary of two statuses, one of them of two detail rows.
C5_Witness ==
    /\ Compared
    /\ Len(summary) >= 2
    /\ \E i \in DOMAIN summary : summary[i].rows >= 2

OnlyIn1 == {i \in DOMAIN detail : detail[i].company_name_1 # None /\ detail[i].company_name_2 = None}
OnlyIn2 == {i \in DOMAIN detail : detail[i].company_name_1 = None /\ detail[i].company_name_2 # None}

\* C6: for every pair of input paths the status of the rows of file 1
\* alone differs from the status of the rows of file 2 alone, so the two
\* kinds of row differ in the detail table, in the summary and in the two
\* counts run_compare returns.
C6_LabelsDistinct ==
    /\ Compared =>
          /\ only_file(PathName(file1)) # only_file(PathName(file2))
          /\ \A i \in OnlyIn1 : \A j \in OnlyIn2 : detail[i].status # detail[j].status
    /\ pc = "done" =>
          /\ stats.only1 = Cardinality(OnlyIn1)
          /\ stats.only2 = Cardinality(OnlyIn2)

(***************************************************************************)
(* parse_amount                                                            *)
(***************************************************************************)

\* The text with every whitespace character deleted.
RECURSIVE DeleteWhitespace(_)
DeleteWhitespace(t) ==
    IF t = <<>> THEN <<>>
    ELSE (IF IsSpace(Head(t)) THEN <<>> ELSE <<Head(t)>>) \o DeleteWhitespace(Tail(t))

\* C8: parse_amount ignores all whitespace, internal as well as leading and
\* trailing, and reads a comma as a period: the result for a text equals the
\* result for the text with every whitespace character deleted and the
\* result for the text with every comma replaced by a period; a missing
\* value and a text that is empty once its whitespace is deleted give absent.
C8_WhitespaceAndCommaIgnored ==
    pc = "returned" =>
        IF value = None THEN ret = None
        ELSE /\ ret = parse_amount(Some(DeleteWhitespace(value[1])))
             /\ ret = parse_amount(Some(Replace(value[1], ",", <<".">>)))
             /\ DeleteWhitespace(value[1]) = <<>> => ret = None

(***************************************************************************)
(* parse_id_from_file1                                                     *)
(***************************************************************************)

\* The bracket pairs of a text: an opening and the next closing bracket
\* with no bracket between them, as <<open, close>> positions.
BracketPairs(t) ==
    {p \in (1..Len(t)) \X (1..Len(t)) :
        /\ p[1] < p[2]
        /\ t[p[1]] = "["
        /\ t[p[2]] = "]"
        /\ \A k \in (p[1] + 1)..(p[2] - 1) : t[k] \notin {"[", "]"}}

\* The bracket pairs that hold one or more digits and nothing else.
DigitPairs(t) ==
    {p \in BracketPairs(t) :
        /\ p[2] > p[1] + 1
        /\ \A k \in (p[1] + 1)..(p[2] - 1) : t[k] \in Digits}

FirstPair(ps) == CHOOSE p \in ps : \A q \in ps : p[1] <= q[1]

Inside(t, p) == SubSeq(t, p[1] + 1, p[2] - 1)

\* C9 as stated: the result is taken from the first bracket pair of the
\* field and from no later pair; absent when the field is missing or holds
\* no bracket pair.
C9_FirstBracketPair ==
    pc = "returned" =>
        IF value = None \/ BracketPairs(value[1]) = {} THEN ret = None
        ELSE ret # None => ret[1] = Inside(value[1], FirstPair(BracketPairs(value[1])))

\* C9 amended: the result is the digit sequence inside the first bracket
\* pair that holds one or more digits and nothing else, every other pair
\* being ignored; absent when the field is missing or holds no such pair.
C9_FirstDigitPair ==
    pc = "returned" =>
        IF value = None \/ DigitPairs(value[1]) = {} THEN ret = None
        ELSE ret = Some(Inside(value[1], FirstPair(DigitPairs(value[1]))))

\* A field with two digit pairs of different content was parsed to the first.
C9_Witness ==
    /\ pc = "returned"
    /\ value # None
    /\ \E p, q \in DigitPairs(value[1]) :
            /\ p[1] < q[1]
            /\ Inside(value[1], p) # Inside(value[1], q)
            /\ ret = Some(Inside(value[1], p))

====
